---- MODULE Spec2Model ----
(***************************************************************************)
(* The benchmark client of node/src/benchmark_client.rs: main() waits for  *)
(* the listed nodes (Client::wait), then runs Client::send, which checks   *)
(* the transaction size, connects to the target, starts the receiver and   *)
(* sends `rate` transactions per interval tick until a send fails.         *)
(*                                                                         *)
(* u32 values are kept as their four big-endian bytes, which is what       *)
(* put_u32 writes on the wire; the i32 burst counter is an integer kept in *)
(* -2^31 .. 2^31-1.                                                        *)
(***************************************************************************)
EXTENDS Integers, Sequences, FiniteSets, TLC

\* ---------------------------------------------------------------- bounds
NumPeers == 2
MaxRate == 2
MaxSize == 9
MaxBursts == 3

\* ------------------------------------------------------ program constants
MinTxSize == 8
BURST_DURATION == 1000
I32Max == 2147483647
I32Min == -I32Max - 1

Peers == 1..NumPeers
Sizes == (MinTxSize - 1)..MaxSize
Rates == 0..MaxRate

U32Zero == <<0, 0, 0, 0>>
U32Max == <<255, 255, 255, 255>>

\* Values rand::thread_rng().gen::<u32>() may return (any u32; these are the
\* two next to the wrap and an ordinary one).
RandU32 == {<<0, 0, 1, 255>>, <<255, 255, 255, 254>>, U32Max}

\* Elapsed milliseconds of a burst, as now.elapsed().as_millis() reports it:
\* a quick burst, one of exactly the window, one just over it and one that
\* misses two deadlines.
ElapsedMs == {0, BURST_DURATION, BURST_DURATION + 1, 2 * BURST_DURATION + 1}

\* Numbers of bursts a long run has already completed when observation of
\* it starts (see LateInit): just below 2^24, where the 24 bits the sample
\* tag keeps of the counter run out.
LateCounters == {16777213, 16777214}

VARIABLES
    \* Client fields and build profile (fixed at construction)
    size, rate, nodes, honest, overflow_checks,
    \* environment: the peers currently accepting connections
    up,
    \* control state
    pc, probe, outcome,
    \* locals of Client::send
    counter, r, load_client_rand, tx, i, listener, now,
    \* the clock (ms since send() was called) and the next deadline of the
    \* tokio interval
    clock, deadline,
    \* observable effects
    log, lastLog, handed, wire, elapsed, warned,
    \* history of the run
    probed, accepted, targetAttempts, burstNo, ticksSeen, sentInBurst,
    sendAttempts, sentTotal, burstTags, prevTags, discsSeen, sendFailed,
    connectFailed, prevTick

config == <<size, rate, nodes, honest, overflow_checks>>
locals == <<counter, r, load_client_rand, tx, i, listener, now>>
time == <<clock, deadline>>
effects == <<log, lastLog, handed, wire, elapsed, warned>>
barrierHist == <<probed, accepted>>
runHist == <<targetAttempts, burstNo, ticksSeen, sentInBurst, sendAttempts,
             sentTotal, burstTags, prevTags, discsSeen, sendFailed,
             connectFailed, prevTick>>
vars == <<config, up, pc, probe, outcome, locals, time, effects, barrierHist,
          runHist>>

\* ------------------------------------------------------------ u32 / bytes

\* u32::to_be_bytes of a value 0 .. 2^31-1
ToBeBytes(u) ==
    <<u \div 16777216, (u \div 65536) % 256, (u \div 256) % 256, u % 256>>

\* (c as u32).to_be_bytes() for an i32 c: two's complement for c < 0
AsU32Bytes(c) ==
    IF c >= 0 THEN ToBeBytes(c)
    ELSE LET m == (c + I32Max) + 1
         IN  <<128 + (m \div 16777216), (m \div 65536) % 256,
               (m \div 256) % 256, m % 256>>

\* u32 wrapping increment on the big-endian bytes
IncU32(w) ==
    IF w[4] < 255 THEN <<w[1], w[2], w[3], w[4] + 1>>
    ELSE IF w[3] < 255 THEN <<w[1], w[2], w[3] + 1, 0>>
    ELSE IF w[2] < 255 THEN <<w[1], w[2] + 1, 0, 0>>
    ELSE IF w[1] < 255 THEN <<w[1] + 1, 0, 0, 0>>
    ELSE U32Zero

\* numeric order of two u32 values = lexicographic order of their bytes
U32Less(a, b) ==
    \E k \in 1..4 : a[k] < b[k] /\ \A j \in 1..(k - 1) : a[j] = b[j]

U32Leq(a, b) == a = b \/ U32Less(a, b)

\* BufMut::put_u32: append the four big-endian bytes
PutU32(buf, w) == buf \o w

\* BytesMut::resize(n, 0)
Resize(buf, n) ==
    IF Len(buf) >= n THEN SubSeq(buf, 1, n)
    ELSE buf \o [k \in 1..(n - Len(buf)) |-> 0]

Tag(p) == SubSeq(p, 1, 4)
Disc(p) == SubSeq(p, 5, 8)

\* the last two payloads the transport accepted, oldest first
Last2(s) == IF Len(s) <= 2 THEN s ELSE SubSeq(s, Len(s) - 1, Len(s))

\* --------------------------------------------------------- initial state

\* main(): the Client is built from the arguments and client.wait() has
\* spawned one probe task per node; nothing of send() has run yet.
Init ==
    /\ size \in Sizes
    /\ rate \in Rates
    /\ nodes \in SUBSET Peers
    /\ honest \in BOOLEAN
    /\ overflow_checks \in BOOLEAN
    /\ up \in SUBSET nodes
    /\ pc = "wait"
    /\ probe = [p \in nodes |-> "connect"]
    /\ outcome = "running"
    /\ counter = 0
    /\ r = U32Zero
    /\ load_client_rand = U32Zero
    /\ tx = <<>>
    /\ i = 0
    /\ listener = "none"
    /\ now = 0
    /\ clock = 0
    /\ deadline = 0
    /\ prevTick = 0
    /\ log = {}
    /\ lastLog = <<>>
    /\ handed = <<>>
    /\ wire = <<>>
    /\ elapsed = 0
    /\ warned = FALSE
    /\ probed = {}
    /\ accepted = {}
    /\ targetAttempts = 0
    /\ burstNo = -1
    /\ ticksSeen = 0
    /\ sentInBurst = 0
    /\ sendAttempts = 0
    /\ sentTotal = 0
    /\ burstTags = {}
    /\ prevTags = {}
    /\ discsSeen = {}
    /\ sendFailed = FALSE
    /\ connectFailed = FALSE

\* ------------------------------------------------------- Client::wait

\* A peer starts or stops accepting connections (the environment decides
\* what TcpStream::connect(address) returns).
PeerUp(p) ==
    /\ pc = "wait"
    /\ p \in nodes \ up
    /\ up' = up \cup {p}
    /\ UNCHANGED <<config, pc, probe, outcome, locals, time, effects, barrierHist,
                   runHist>>

PeerDown(p) ==
    /\ pc = "wait"
    /\ p \in up
    /\ up' = up \ {p}
    /\ UNCHANGED <<config, pc, probe, outcome, locals, time, effects, barrierHist,
                   runHist>>

\* One connection attempt of the probe task of peer p: the task ends when the
\* connection is accepted and goes to sleep(10 ms) when it is not.
Probe(p) ==
    /\ pc = "wait"
    /\ p \in nodes
    /\ probe[p] = "connect"
    /\ probed' = probed \cup {p}
    /\ IF p \in up
         THEN /\ probe' = [probe EXCEPT ![p] = "done"]
              /\ accepted' = accepted \cup {p}
         ELSE /\ probe' = [probe EXCEPT ![p] = "sleep"]
              /\ UNCHANGED accepted
    /\ UNCHANGED <<config, up, pc, outcome, locals, time, effects, runHist>>

\* faulty variant: a probe that failed once sleeps and never tries again
Wake_NoRetry(p) ==
    /\ pc = "wait"
    /\ p \in nodes
    /\ probe[p] = "sleep"
    /\ UNCHANGED vars

\* The 10 ms sleep of the probe task of peer p is over: it tries again.
Wake(p) ==
    /\ pc = "wait"
    /\ p \in nodes
    /\ probe[p] = "sleep"
    /\ probe' = [probe EXCEPT ![p] = "connect"]
    /\ UNCHANGED <<config, up, pc, outcome, locals, time, effects, barrierHist,
                   runHist>>

\* faulty variant: the barrier resolves as soon as one probe task has ended
JoinAll_Any == \E p \in nodes : probe[p] = "done"

\* join_all over the probe tasks resolves when every task has ended
JoinAll == \A p \in nodes : probe[p] = "done"

\* client.wait().await returns; main calls client.send()
WaitReturn ==
    /\ pc = "wait"
    /\ JoinAll
    /\ pc' = "send"
    /\ UNCHANGED <<config, up, probe, outcome, locals, time, effects,
                   barrierHist, runHist>>

\* ------------------------------------------------------- Client::send

\* if self.size < 8 { return Err("Transaction size must be at least 8 bytes") }
Validate ==
    /\ pc = "send"
    /\ IF size < MinTxSize
         THEN /\ pc' = "done"
              /\ outcome' = "Err:size"
         ELSE /\ pc' = "connect"
              /\ UNCHANGED outcome
    /\ UNCHANGED <<config, up, probe, locals, time, effects, barrierHist,
                   runHist>>

\* faulty variant: a failed connection to the target is tried again
ConnectErrPc_Retry == "connect"

\* where send() goes when the connection to the target fails: `?` returns
ConnectErrPc == "done"

\* TcpStream::connect(self.target).await.context(..)? : one attempt, and the
\* error, if any, is returned to main
Connect ==
    /\ pc = "connect"
    /\ targetAttempts' = targetAttempts + 1
    /\ \E ok \in BOOLEAN :
         IF ok
           THEN /\ pc' = "setup"
                /\ UNCHANGED <<outcome, connectFailed>>
           ELSE /\ pc' = ConnectErrPc
                /\ outcome' = IF ConnectErrPc = "done" THEN "Err:connect" ELSE outcome
                /\ connectFailed' = TRUE
    /\ UNCHANGED <<config, up, probe, locals, time, effects, barrierHist,
                   burstNo, ticksSeen, sentInBurst, sendAttempts, sentTotal,
                   burstTags, prevTags, discsSeen, sendFailed, prevTick>>

\* faulty variant: an inclusive range, 0..=rate
Burst_Inclusive == rate + 1

\* let burst = self.rate
Burst == rate

\* faulty variant: the two handlers are exchanged
Handler_Swapped == IF honest THEN "silent" ELSE "verbose"

\* the handler Receiver::spawn is given
Handler == IF honest THEN "verbose" ELSE "silent"

\* The locals of send(), the receiver and the start marker, up to the loop.
Setup ==
    /\ pc = "setup"
    /\ tx' = <<>>
    /\ counter' = 0
    /\ r' \in RandU32
    /\ load_client_rand' \in RandU32
    /\ listener' = Handler
    /\ deadline' = clock
    /\ log' = log \cup {"start"}
    /\ pc' = "tick"
    /\ UNCHANGED <<config, up, probe, outcome, i, now, clock, lastLog, handed, wire,
                   elapsed, warned, barrierHist, runHist>>

Later(a, b) == IF a >= b THEN a ELSE b

\* faulty variant: the next deadline is a period after the tick fired
\* (tokio's MissedTickBehavior::Delay)
NextDeadline_Delay(d, fired) == fired + BURST_DURATION

\* The interval is created with the default missed-tick behaviour: the next
\* deadline is a period after the deadline that fired, whenever it fired.
NextDeadline(d, fired) == d + BURST_DURATION

\* interval.tick().await resolves, at its deadline or at once when the
\* deadline has passed, and a burst starts: let now = Instant::now()
Tick ==
    /\ pc = "tick"
    /\ ticksSeen < MaxBursts
    /\ burstNo < I32Max
    /\ pc' = "burst"
    /\ i' = 0
    /\ clock' = Later(clock, deadline)
    /\ now' = clock'
    /\ deadline' = NextDeadline(deadline, clock')
    /\ prevTick' = now
    /\ burstNo' = burstNo + 1
    /\ ticksSeen' = ticksSeen + 1
    /\ sentInBurst' = 0
    /\ prevTags' = prevTags \cup burstTags
    /\ burstTags' = {}
    /\ UNCHANGED <<config, up, probe, outcome, counter, r, load_client_rand, tx,
                   listener, effects, barrierHist, targetAttempts, sendAttempts,
                   sentTotal, discsSeen, sendFailed, connectFailed>>

\* faulty variant: the loop variable shadows the burst counter
SampleCount_LoopIndex(c, k) == k

\* the count a sample transaction is built from: the burst counter, whatever
\* the position k of the transaction in its burst
SampleCount(c, k) == c

\* faulty variant: the most significant byte is not cleared
SampleTag_NoMask(c) == AsU32Bytes(c)

\* let mut counter = (counter as u32).to_be_bytes(); counter[0] = 0u8;
SampleTag(c) == [AsU32Bytes(c) EXCEPT ![1] = 0]

\* ((counter as u64) << 32) + load_client_rand as u64, as eight big-endian
\* bytes: the sign-extended counter loses its upper half in the shift
SampleId(c, lcr) == AsU32Bytes(c) \o lcr

\* faulty variant: the increment of r is missing
NextR_Stuck(rr) == rr

\* r += 1 (without overflow checks)
NextR(rr) == IncU32(rr)

\* r += 1 panics in a build with overflow checks when r is u32::MAX
FillerPanics == ~honest /\ overflow_checks /\ r = U32Max

\* faulty variant: the sentinel is written as 0
FillerTag_Zero == U32Zero

\* tx.put_u32(u32::MAX)
FillerTag == U32Max

\* the eight header bytes put into tx
Header(c, k, lcr, rr) ==
    IF honest
      THEN PutU32(PutU32(tx, SampleTag(SampleCount(c, k))), lcr)
      ELSE PutU32(PutU32(tx, FillerTag), NextR(rr))

\* faulty variant: the bytes are copied out and tx keeps them
Split_Keep(buf) == buf

\* what tx.split() leaves in tx: nothing
Split(buf) == <<>>

\* faulty variant: the error is logged and the loop goes on
SendErrPc_Continue == "burst"

\* where the loop goes when transport.send returns an error: break 'main
SendErrPc == "done"

\* One iteration of `for _ in 0..burst`: log (sample mode), build the
\* transaction, tx.split(), transport.send(bytes).await and its result.
SendTx ==
    /\ pc = "burst"
    /\ i < Burst
    /\ IF FillerPanics
         THEN /\ pc' = "done"
              /\ outcome' = "panic"
              /\ UNCHANGED <<locals, effects, runHist>>
         ELSE LET payload == Resize(Header(counter, i, load_client_rand, r), size)
              IN  /\ r' = IF honest THEN r ELSE NextR(r)
                  /\ lastLog' = IF honest
                                  THEN [id |-> SampleId(counter, load_client_rand),
                                        client |-> load_client_rand,
                                        count |-> counter]
                                  ELSE lastLog
                  /\ tx' = Split(payload)
                  /\ handed' = payload
                  /\ sendAttempts' = sendAttempts + 1
                  /\ \E ok \in BOOLEAN :
                       IF ok
                         THEN /\ wire' = Last2(Append(wire, payload))
                              /\ i' = i + 1
                              /\ sentInBurst' = sentInBurst + 1
                              /\ sentTotal' = sentTotal + 1
                              /\ burstTags' = burstTags \cup {Tag(payload)}
                              /\ discsSeen' = discsSeen \cup {Disc(payload)}
                              /\ UNCHANGED <<pc, outcome, log, sendFailed>>
                         ELSE /\ log' = log \cup {"warn:send"}
                              /\ sendFailed' = TRUE
                              /\ pc' = SendErrPc
                              /\ outcome' = IF SendErrPc = "done" THEN "Ok" ELSE outcome
                              /\ UNCHANGED <<wire, i, sentInBurst, sentTotal,
                                             burstTags, discsSeen>>
                  /\ UNCHANGED <<counter, load_client_rand, listener, now,
                                 elapsed, warned, targetAttempts, burstNo,
                                 ticksSeen, prevTags, connectFailed, prevTick>>
    /\ UNCHANGED <<config, up, probe, time, barrierHist>>

\* counter += 1 (without overflow checks)
NextCounter(c) == IF c = I32Max THEN I32Min ELSE c + 1

\* counter += 1 panics in a build with overflow checks at i32::MAX
CounterPanics == overflow_checks /\ counter = I32Max

\* faulty variant: a burst of exactly the window length is reported too
Overrun_Geq(ms) == ms >= BURST_DURATION

\* now.elapsed().as_millis() > BURST_DURATION as u128
Overrun(ms) == ms > BURST_DURATION

\* The loop over 0..burst is exhausted: the overrun check and counter += 1.
EndBurst ==
    /\ pc = "burst"
    /\ i >= Burst
    /\ \E ms \in ElapsedMs :
         /\ clock' = now + ms
         /\ elapsed' = ms
         /\ warned' = Overrun(ms)
         /\ log' = IF Overrun(ms) THEN log \cup {"warn:overrun"} ELSE log
    /\ IF CounterPanics
         THEN /\ pc' = "done"
              /\ outcome' = "panic"
              /\ UNCHANGED counter
         ELSE /\ pc' = "tick"
              /\ counter' = NextCounter(counter)
              /\ UNCHANGED outcome
    /\ UNCHANGED <<config, up, probe, r, load_client_rand, tx, i, listener,
                   now, deadline, lastLog, handed, wire, barrierHist, runHist>>

Next ==
    \/ \E p \in Peers : PeerUp(p)
    \/ \E p \in Peers : PeerDown(p)
    \/ \E p \in Peers : Probe(p)
    \/ \E p \in Peers : Wake(p)
    \/ WaitReturn
    \/ Validate
    \/ Connect
    \/ Setup
    \/ Tick
    \/ SendTx
    \/ EndBurst

Spec == Init /\ [][Next]_vars

\* ------------------------------------------------------------ the barrier

\* The steps of client.wait() alone, with the fairness of the tokio runtime:
\* a spawned probe task that can attempt its connection does so, a sleep
\* that is over ends, and main resumes when join_all has resolved.
NextWait ==
    \/ \E p \in Peers : PeerUp(p)
    \/ \E p \in Peers : PeerDown(p)
    \/ \E p \in Peers : Probe(p)
    \/ \E p \in Peers : Wake(p)
    \/ WaitReturn

SpecBarrier ==
    /\ Init
    /\ [][NextWait]_vars
    /\ \A p \in Peers : WF_vars(Probe(p)) /\ WF_vars(Wake(p))
    /\ WF_vars(WaitReturn)

\* ------------------------------------------------------------- long runs

\* The scheduler of a run that has already completed n bursts without a
\* failed send (n in LateCounters), waiting for its next tick: the loop has
\* done counter += 1 n times from 0, the barrier and the setup are behind,
\* and the history variables start empty, so they record what is observed
\* from here on.  A run ticks about once a second and never stops by itself,
\* so these states are reached after n ticks; exploring from them stands for
\* exploring n ticks deep.
LateInit ==
    /\ size \in MinTxSize..MaxSize
    /\ rate \in Rates
    /\ nodes = {}
    /\ honest \in BOOLEAN
    /\ overflow_checks \in BOOLEAN
    /\ up = {}
    /\ pc = "tick"
    /\ probe = [p \in nodes |-> "done"]
    /\ outcome = "running"
    /\ counter \in LateCounters
    /\ r \in RandU32
    /\ load_client_rand \in RandU32
    /\ tx = <<>>
    /\ i = Burst
    /\ listener = Handler
    /\ now = 0
    /\ clock = 0
    /\ deadline = 0
    /\ prevTick = 0
    /\ log = {"start"}
    /\ lastLog = <<>>
    /\ handed = <<>>
    /\ wire = <<>>
    /\ elapsed = BURST_DURATION
    /\ warned = FALSE
    /\ probed = {}
    /\ accepted = {}
    /\ targetAttempts = 1
    /\ burstNo = counter - 1
    /\ ticksSeen = 0
    /\ sentInBurst = 0
    /\ sendAttempts = 0
    /\ sentTotal = 0
    /\ burstTags = {}
    /\ prevTags = {}
    /\ discsSeen = {}
    /\ sendFailed = FALSE
    /\ connectFailed = FALSE

InitLong == Init \/ LateInit

SpecLong == InitLong /\ [][Next]_vars

\* What every state of a run with the scheduler between two bursts looks
\* like; LateInit is taken among the states of this shape.
TickShape ==
    pc = "tick" =>
        /\ size >= MinTxSize
        /\ counter = NextCounter(burstNo)
        /\ tx = <<>>
        /\ listener = Handler
        /\ "start" \in log
        /\ accepted = nodes
        /\ targetAttempts = 1
        /\ outcome = "running"
        /\ ~sendFailed /\ ~connectFailed

\* ================================================================ claims

TagWrap == 16777216

\* C1 (as stated): with size < 8 the run fails with the size-validation
\* error and before that no connection is attempted, neither a probe
\* connection to a peer nor the connection to the target.
C1_NoConnectionBeforeSizeError ==
    size < MinTxSize =>
        /\ probed = {}
        /\ targetAttempts = 0
        /\ (pc = "done" => outcome = "Err:size")

\* C2: the barrier returns only after every listed peer has accepted a probe
\* connection, and nothing of the send phase (target connection, receiver,
\* tick, transaction) happens before the barrier has returned.
C2_BarrierBeforeSend ==
    (\/ pc # "wait"
     \/ targetAttempts > 0
     \/ listener # "none"
     \/ ticksSeen > 0
     \/ sendAttempts > 0) => accepted = nodes

C2_Witness ==
    /\ nodes = Peers
    /\ Cardinality(nodes) >= 2
    /\ accepted = nodes
    /\ sentTotal > 0

\* C3: once a send has failed the scheduler has stopped with the warning
\* logged, and nothing more is generated, sent or ticked.
C3_StopOnSendFailure ==
    /\ [](sendFailed => pc = "done" /\ "warn:send" \in log)
    /\ [][sendFailed => UNCHANGED <<sendAttempts, sentTotal, ticksSeen,
                                    burstNo, r, counter, tx, wire>>]_vars

C3_Witness ==
    /\ sendFailed
    /\ pc = "done"
    /\ rate >= 2
    /\ sentInBurst = 1
    /\ sendAttempts = sentTotal + 1

\* C4 (as stated): in every fatal case (size < 8, failed connection to the
\* target, failed send) the run ends with an error outcome, never with a
\* success outcome.
C4_FatalEndsWithError ==
    (pc = "done" /\ (size < MinTxSize \/ connectFailed \/ sendFailed)) =>
        outcome \in {"Err:size", "Err:connect", "Err:send"}

\* C5 (as stated): in sample mode the tag of every transaction of a burst is
\* less than or equal to the tag of every transaction of any later burst.
C5_TagNonDecreasing ==
    honest => \A a \in prevTags : \A b \in burstTags : U32Leq(a, b)

\* C5 (amended): the same, for the bursts numbered below 2^24.
C5_TagNonDecreasingBelowWrap ==
    (honest /\ burstNo < TagWrap) =>
        \A a \in prevTags : \A b \in burstTags : U32Leq(a, b)

C5_Witness ==
    /\ honest
    /\ burstNo = TagWrap - 1
    /\ <<0, 255, 255, 254>> \in prevTags
    /\ burstTags = {<<0, 255, 255, 255>>}

\* C6 (as stated): in filler mode, when r holds the maximum u32 value and a
\* transaction is due, it is generated and handed to the transport with
\* discriminator 0 and the run continues.
C6_FillerWrapsAndContinues ==
    [][(pc = "burst" /\ i < Burst /\ ~honest /\ r = U32Max) =>
           /\ sendAttempts' = sendAttempts + 1
           /\ r' = U32Zero
           /\ outcome' # "panic"]_vars

\* C7 (as stated): in filler mode each transaction's discriminator is
\* exactly one greater than that of the transaction sent before it.
C7_DiscStrictlyIncreasing ==
    (~honest /\ Len(wire) = 2) =>
        /\ U32Less(Disc(wire[1]), Disc(wire[2]))
        /\ Disc(wire[2]) = IncU32(Disc(wire[1]))

\* C7 (amended): each discriminator is one greater modulo 2^32 than the one
\* before it, also across bursts, and the discriminators sent are distinct.
C7_DiscContiguousMod32 ==
    ~honest =>
        /\ Len(wire) = 2 => Disc(wire[2]) = IncU32(Disc(wire[1]))
        /\ Cardinality(discsSeen) = sentTotal

C7_Witness ==
    /\ ~honest
    /\ rate = 1
    /\ Len(wire) = 2
    /\ Disc(wire[1]) = U32Max
    /\ Disc(wire[2]) = U32Zero

\* C8: in sample mode all transactions of one burst carry the same tag and
\* every transaction of the run carries the discriminator load_client_rand.
C8_SampleBurstShape ==
    honest =>
        /\ Cardinality(burstTags) <= 1
        /\ discsSeen \subseteq {load_client_rand}
        /\ \A k \in 1..Len(wire) : Disc(wire[k]) = load_client_rand

C8_Witness ==
    /\ honest
    /\ sentInBurst >= 2
    /\ ticksSeen >= 2
    /\ Cardinality(burstTags) = 1
    /\ prevTags # {}
    /\ discsSeen = {load_client_rand}

\* C9 (as stated): in sample mode the transactions of burst number k
\* (0, 1, 2, ... one per tick) carry tag k.
C9_TagIsBurstNumber ==
    honest => \A t \in burstTags : t = ToBeBytes(burstNo)

\* C9 (amended): they carry tag k mod 2^24.
C9_TagIsBurstNumberMod24 ==
    honest => \A t \in burstTags : t = ToBeBytes(burstNo % TagWrap)

C9_Witness ==
    /\ honest
    /\ burstNo = TagWrap
    /\ burstTags = {U32Zero}

\* C10: a burst never sends more than `rate` transactions, and when the
\* scheduler is back at the tick after a burst, exactly `rate` were sent.
C10_ExactlyRatePerBurst ==
    /\ sentInBurst <= rate
    /\ (pc = "tick" /\ ticksSeen > 0) => sentInBurst = rate

C10_Witness ==
    /\ pc = "tick"
    /\ ticksSeen >= 2
    /\ rate = MaxRate
    /\ sentInBurst = rate

C12_ConnectFailureIsFinal ==
    /\ targetAttempts <= 1
    /\ connectFailed =>
         /\ pc = "done"
         /\ outcome = "Err:connect"
         /\ targetAttempts = 1
         /\ listener = "none"
         /\ ticksSeen = 0
         /\ sendAttempts = 0

C12_Witness ==
    /\ connectFailed
    /\ pc = "done"
    /\ nodes # {}
    /\ rate > 0

\* C14: whenever the scheduler has reached its loop, the receiver has been
\* spawned, with the verbose handler in sample mode and the silent handler
\* in filler mode.
C14_ListenerBeforeFirstTick ==
    (pc \in {"tick", "burst"} \/ ticksSeen > 0 \/ sendAttempts > 0) =>
        /\ honest => listener = "verbose"
        /\ ~honest => listener = "silent"

C14_Witness ==
    /\ pc = "tick"
    /\ ticksSeen = 0
    /\ listener = "silent"
    /\ ~honest

\* C15: in filler mode every transaction sent carries tag 0xFFFFFFFF.
C15_FillerTagIsSentinel ==
    ~honest =>
        /\ \A t \in burstTags \cup prevTags : t = <<255, 255, 255, 255>>
        /\ \A k \in 1..Len(wire) : Tag(wire[k]) = <<255, 255, 255, 255>>

C15_Witness ==
    /\ ~honest
    /\ prevTags = {U32Max}
    /\ burstTags = {U32Max}
    /\ Len(wire) = 2

\* C13 (as stated): once the scheduler is running it leaves the running
\* state only through a failed send.
C13_OnlySendFailureStops ==
    (pc = "done" /\ "start" \in log) => sendFailed

\* C18 (as stated): the values logged for a sample transaction are those on
\* the wire: count = bytes[0:4], client = bytes[4:8], id = bytes[0:8].
C18_LogMatchesWire ==
    (honest /\ sendAttempts > 0) =>
        /\ lastLog.count >= 0
        /\ ToBeBytes(lastLog.count) = Tag(handed)
        /\ lastLog.client = Disc(handed)
        /\ lastLog.id = SubSeq(handed, 1, 8)

\* C19: in sample mode the first byte of every tag is zero, so no sample
\* transaction carries the tag of the filler transactions, 0xFFFFFFFF.
C19_SampleTagBelowWrap ==
    (honest /\ sendAttempts > 0) =>
        /\ Tag(handed)[1] = 0
        /\ Tag(handed) # <<255, 255, 255, 255>>
        /\ \A t \in burstTags \cup prevTags : t[1] = 0

C19_Witness ==
    /\ honest
    /\ burstNo >= TagWrap
    /\ sentInBurst >= 2
    /\ Tag(handed)[1] = 0
    /\ lastLog.count >= TagWrap

C16_NoCatchUp ==
    (pc = "burst" /\ ticksSeen >= 2) =>
        now = Later(prevTick + elapsed, prevTick + BURST_DURATION)

\* C16 (amended): the deadlines stay a window apart from the start of the
\* interval (time 0), whenever the ticks fired: tick number k fires at the
\* later of the completion of the burst before it and k windows after the
\* start, so ticks after an overrun come early until the schedule is caught
\* up.
C16_DeadlinesAnchored ==
    (pc = "burst" /\ ticksSeen >= 2) =>
        /\ now = Later(prevTick + elapsed, burstNo * BURST_DURATION)
        /\ deadline = (burstNo + 1) * BURST_DURATION

C16_Witness ==
    /\ pc = "burst"
    /\ ticksSeen = 3
    /\ elapsed = 0
    /\ now = prevTick
    /\ now = 2 * BURST_DURATION + 1

\* the probe task of peer q is listed and in state st
ProbeIs(q, st) == q \in nodes /\ probe[q] = st

\* C20: every probe task retries after a failed attempt and stays ended once
\* it has connected; a peer that is reachable from some point on gets its
\* probe through whatever the other peers do; when all listed peers are
\* reachable from some point on the barrier completes; with no peers no
\* connection is attempted.
C20_BarrierProgress ==
    /\ \A q \in Peers :
         /\ [](ProbeIs(q, "sleep") => <>ProbeIs(q, "connect"))
         /\ <>[](q \in up) => <>ProbeIs(q, "done")
    /\ <>[](up = nodes) => <>(pc = "send")
    /\ [][\A q \in nodes : probe[q] = "done" =>
              /\ probe'[q] = "done"
              /\ (q \in probed') = (q \in probed)]_vars
    /\ [](nodes = {} => probed = {})

C20_Witness ==
    /\ nodes = Peers
    /\ pc = "wait"
    /\ \E p \in nodes : \E q \in nodes :
         /\ probe[p] = "done"
         /\ probe[q] = "sleep"
         /\ q \notin up

====
